---- MODULE Spec2Model ----
(***************************************************************************)
(* Model of the program deployment pipeline of Scilla,                     *)
(* src/src/commands/program/deploy.rs (deploy_program and                  *)
(* RpcLeaderUpdater::new) together with build_and_send_tx of               *)
(* src/src/misc/helpers.rs.                                                *)
(*                                                                         *)
(* One action models one stretch of deploy_program between two points      *)
(* where the function can return (`?`, bail!) or suspend (.await).         *)
(* Every external call (file system, RPC, TPU client) answers with a       *)
(* nondeterministically chosen outcome.                                    *)
(***************************************************************************)
EXTENDS Integers, Sequences, FiniteSets, TLC

VARIABLES
    pc,                 \* position in deploy_program
    result,             \* "running", "ok" (Ok(())) or "err" (Err(_))
    fileExists,         \* program_path_buf.exists()
    fileData,           \* the bytes of the file at program_path
    immutable,          \* argument `immutable`
    program_data,       \* Vec<u8> read from the file
    reliableLog,        \* transactions handed to send_and_confirm_transaction
    write_transactions, \* Vec<Transaction>
    write_signatures,   \* Vec<Signature>
    wire_transactions,  \* Vec<Vec<u8>>
    tpu_map,            \* RpcLeaderUpdater.tpu_map (its key set)
    discovery,          \* what get_cluster_nodes advertised: "none", "empty", "quic"
    client,             \* TPU client: "none", "open", "closed"
    lastBatch,          \* batch given to send_transactions_in_batch by the latest step
    lastOp,             \* the external call made by the latest step
    lastStatuses,       \* statuses.value of the latest get_signature_statuses
    lastPolled,         \* signatures given to get_signature_statuses by the latest step
    confirmed,          \* Vec<bool>
    confirmed_count,
    elapsed_seconds,    \* loop variable of `for elapsed_seconds in 0..max_wait_seconds`
    sinceResend,        \* last_resend.elapsed() in seconds, saturating at resend_interval
    lastSendOk,         \* result of the send_transactions_in_batch of the latest step
    error,              \* the anyhow error deploy_program returned
    cancelRequested,    \* the operator has asked for the run to be cancelled
    secNav,             \* a CommandSectionNav value
    appNav,             \* an AppNav value
    navOp,              \* the navigation method called by the latest step
    navRet,             \* what that method returned
    navArg,             \* the section that call was given, if it takes one
    backCount,          \* consecutive AppNav::go_back calls so far
    stack,              \* NavContext.stack
    ctxOp,              \* the NavContext method called by the latest step
    ctxArg,             \* the section that call was given, if it takes one
    ctxRet,             \* what that method returned
    ctxPanic,           \* the panic that ended the program, if any
    res,                \* main's CommandFlow `res`
    asked               \* what the prompts of the latest step were answered

\* The state of the navigation types.
navVars == <<secNav, appNav, navOp, navRet, navArg, backCount>>

\* The state of one run of deploy_program.
deployVars == <<pc, result, fileExists, fileData, immutable, program_data, reliableLog,
                write_transactions, write_signatures, wire_transactions, tpu_map,
                discovery, client, lastBatch, lastOp, lastStatuses, confirmed,
                confirmed_count, elapsed_seconds, sinceResend, lastSendOk, error,
                lastPolled>>

\* The state of the interactive loop of main and its NavContext.
ctxVars == <<stack, ctxOp, ctxArg, ctxRet, ctxPanic, res, asked>>

vars == <<deployVars, cancelRequested, navVars, ctxVars>>

---------------------------------------------------------------------------
(* Bounds and program constants *)

CHUNK_SIZE == 2

MaxChunks == 3

MaxLen == CHUNK_SIZE * (MaxChunks - 1) + 1

ChunkerMaxLen == 10 * CHUNK_SIZE + 7

MaxNodes == 3

max_wait_seconds == 60

resend_interval == 2

Blockhashes == {"bh1"}

Seeds == {0, 1}

Min(a, b) == IF a < b THEN a ELSE b

CeilDiv(a, b) == (a + b - 1) \div b

\* Byte i (1-based) of the test payload with the given seed.
PatternByte(seed, i) == (seed * 101 + i * 3) % 256

Payload(n, seed) == [i \in 1..n |-> PatternByte(seed, i)]

RECURSIVE Concat(_)
Concat(ss) == IF Len(ss) = 0 THEN <<>> ELSE Head(ss) \o Concat(Tail(ss))

RECURSIVE SumLen(_)
SumLen(ss) == IF Len(ss) = 0 THEN 0 ELSE Len(Head(ss)) + SumLen(Tail(ss))

---------------------------------------------------------------------------
(* Pure helpers of the code *)

RECURSIVE chunks_exact(_, _)
\* Variant: a trailing chunk shorter than chunk_size is dropped.
chunks_exact(v, size) ==
    IF Len(v) < size THEN <<>>
    ELSE <<SubSeq(v, 1, size)>> \o chunks_exact(SubSeq(v, size + 1, Len(v)), size)

\* <[u8]>::chunks(chunk_size) as iterated at deploy.rs:202: each item is the
\* next min(len, chunk_size) bytes of what is left.
RECURSIVE chunks(_, _)
chunks(v, size) ==
    IF Len(v) = 0 THEN <<>>
    ELSE LET k == Min(Len(v), size)
         IN  <<SubSeq(v, 1, k)>> \o chunks(SubSeq(v, k + 1, Len(v)), size)

\* `(i * CHUNK_SIZE) as u32` for the 0-based chunk index i.  The cast only
\* truncates for offsets of 2^32 and more, i.e. payloads of 4 GiB and more,
\* which lie outside the payload lengths explored here.
chunk_offset(i) == i * CHUNK_SIZE

\* The write transaction of chunk number k (1-based position in the Vec):
\* priority-fee instruction + loader write(buffer, offset, bytes), signed
\* against `blockhash`.
WriteTx(k, chunk, blockhash) ==
    [offset |-> chunk_offset(k - 1), bytes |-> chunk, blockhash |-> blockhash]

\* transaction.signatures[0]: determined by the signed message.
SignatureOf(tx) == <<"sig", tx.offset, tx.bytes, tx.blockhash>>

\* bincode::serialize(tx)
Serialize(tx) == <<"wire", SignatureOf(tx), tx.offset, tx.bytes, tx.blockhash>>

BuildWriteTransactions(data, blockhash) ==
    LET cs == chunks(data, CHUNK_SIZE)
    IN  [k \in 1..Len(cs) |-> WriteTx(k, cs[k], blockhash)]

\* The indices (1-based) of the chunks whose flag is false.
Unconfirmed(conf) == {k \in DOMAIN conf : ~conf[k]}

RECURSIVE FilterUnconfirmed(_, _, _)
\* wire_transactions.iter().enumerate().filter(|(i, _)| !confirmed[*i])
FilterUnconfirmed(wire, conf, k) ==
    IF k > Len(wire) THEN <<>>
    ELSE (IF ~conf[k] THEN <<wire[k]>> ELSE <<>>) \o FilterUnconfirmed(wire, conf, k + 1)

\* build_and_send_tx (helpers.rs:97-110).  outcome says where it returns:
\*   "blockhash_err": get_latest_blockhash failed, nothing submitted
\*   "sign_err":      try_sign failed, nothing submitted
\*   "send_err":      send_and_confirm_transaction was called and returned Err
\*   "ok":            send_and_confirm_transaction returned the signature
TxOutcomes == {"blockhash_err", "sign_err", "send_err", "ok"}

build_and_send_tx(log, ix, outcome) ==
    IF outcome \in {"blockhash_err", "sign_err"} THEN log
    ELSE Append(log, [ix |-> ix, confirmed |-> (outcome = "ok")])

\* A signature status as get_signature_statuses reports it:
\*   "none":      None
\*   "noconf":    Some(status) with confirmation_status = None
\*   "confirmed": Some(status) with confirmation_status = Some(_), err = None
\*   "failed":    Some(status) with confirmation_status = Some(_), err = Some(_)
StatusValues == {"none", "noconf", "confirmed", "failed"}

\* Variant: any status that is present confirms.
StatusConfirms_anySome(st) == st # "none"

\* deploy.rs:285-286: Some(status) with confirmation_status.is_some(); the
\* err field of the status is not looked at.
StatusConfirms(st) == st \in {"confirmed", "failed"}

RECURSIVE ProcessStatuses_noContinue(_, _, _, _)
\* Variant: no `continue` for a confirmed chunk, it is counted again.
ProcessStatuses_noContinue(statuses, conf, count, k) ==
    IF k > Len(statuses) THEN <<conf, count>>
    ELSE IF StatusConfirms(statuses[k])
         THEN ProcessStatuses_noContinue(statuses, [conf EXCEPT ![k] = TRUE],
                                         count + 1, k + 1)
         ELSE ProcessStatuses_noContinue(statuses, conf, count, k + 1)

RECURSIVE ProcessStatuses_overwrite(_, _, _, _)
\* Variant: no `continue` for a confirmed chunk, the flag is assigned from
\* the latest status.
ProcessStatuses_overwrite(statuses, conf, count, k) ==
    IF k > Len(statuses) THEN <<conf, count>>
    ELSE IF StatusConfirms(statuses[k])
         THEN ProcessStatuses_overwrite(statuses, [conf EXCEPT ![k] = TRUE],
                                        IF conf[k] THEN count ELSE count + 1, k + 1)
         ELSE ProcessStatuses_overwrite(statuses, [conf EXCEPT ![k] = FALSE],
                                        IF conf[k] THEN count - 1 ELSE count, k + 1)

RECURSIVE ProcessStatuses(_, _, _, _)
\* The loop of deploy.rs:280-300 over statuses.value, from position k on.
\* Returns <<confirmed, confirmed_count>>.
ProcessStatuses(statuses, conf, count, k) ==
    IF k > Len(statuses) THEN <<conf, count>>
    ELSE IF conf[k] THEN ProcessStatuses(statuses, conf, count, k + 1)
    ELSE IF StatusConfirms(statuses[k])
         THEN ProcessStatuses(statuses, [conf EXCEPT ![k] = TRUE], count + 1, k + 1)
         ELSE ProcessStatuses(statuses, conf, count, k + 1)

\* Nodes returned by get_cluster_nodes, a Vec of up to MaxNodes entries: whether
\* the node advertises tpu_quic and whether its pubkey string parses.
NodeIds == 1..MaxNodes

ClusterNodeSets ==
    UNION {[1..n -> [tpu_quic : BOOLEAN, pubkey_ok : BOOLEAN]] : n \in 0..MaxNodes}

\* RpcLeaderUpdater::new, deploy.rs:61-70: the keys inserted into tpu_map.
BuildTpuMap(nodes) ==
    {n \in DOMAIN nodes : nodes[n].tpu_quic /\ nodes[n].pubkey_ok}

AdvertisesQuic(nodes) == \E n \in DOMAIN nodes : nodes[n].tpu_quic

---------------------------------------------------------------------------
(* State machine *)

\* The error of a `?` or bail! other than the one of deploy.rs:358; `at` names
\* the call that failed.
OtherError(at) == [kind |-> "other", at |-> at]

NoError == [kind |-> "none"]

\* Variant: the message gives the number of chunks still missing.
ExhaustedError_missing(count, total) ==
    [kind |-> "only_confirmed", confirmed |-> total - count, total |-> total,
     seconds |-> max_wait_seconds]

\* deploy.rs:358-367: "Only {confirmed_count}/{len} chunks confirmed via QUIC
\* after {max_wait_seconds} seconds. ..."
ExhaustedError(count, total) ==
    [kind |-> "only_confirmed", confirmed |-> count, total |-> total,
     seconds |-> max_wait_seconds]

Fail ==
    /\ pc' = "done"
    /\ result' = "err"

InitCommon ==
    /\ result = "running"
    /\ immutable \in BOOLEAN
    /\ write_transactions = <<>>
    /\ write_signatures = <<>>
    /\ wire_transactions = <<>>
    /\ tpu_map = {}
    /\ discovery = "none"
    /\ client = "none"
    /\ lastBatch = <<>>
    /\ lastStatuses = <<>>
    /\ lastPolled = <<>>
    /\ confirmed = <<>>
    /\ confirmed_count = 0
    /\ elapsed_seconds = 0
    /\ sinceResend = 0
    /\ lastSendOk = TRUE
    /\ error = NoError
    /\ cancelRequested = FALSE

\* The navigation state while a deployment is looked at: untouched.
NavIdle ==
    /\ secNav = [cmd_section |-> "Account", depth |-> 1]
    /\ appNav = [kind |-> "MainMenu"]
    /\ navOp = "none"
    /\ navRet = "none"
    /\ navArg = "none"
    /\ backCount = 0
    /\ stack = <<"Main">>
    /\ ctxOp = "none"
    /\ ctxArg = "none"
    /\ ctxRet = "none"
    /\ ctxPanic = "none"
    /\ res = "start"
    /\ asked = <<>>

Init ==
    /\ NavIdle
    /\ InitCommon
    /\ pc = "read_program"
    /\ lastOp = "none"
    /\ fileExists \in BOOLEAN
    /\ fileData \in IF fileExists THEN {Payload(n, 0) : n \in 0..MaxLen} ELSE {<<>>}
    /\ program_data = <<>>
    /\ reliableLog = <<>>

\* deploy.rs:112-146: existence check, File::open, read_to_end.
ReadProgram ==
    /\ pc = "read_program"
    /\ lastOp' = "read_file"
    /\ \E io_ok \in BOOLEAN :
          IF ~fileExists \/ ~io_ok
          THEN Fail /\ UNCHANGED program_data
          ELSE /\ program_data' = fileData
               /\ pc' = "read_keypair"
               /\ UNCHANGED result
    /\ UNCHANGED <<fileExists, fileData, immutable, reliableLog, write_transactions,
                   write_signatures, wire_transactions, tpu_map, discovery, client,
                   lastBatch, lastStatuses, confirmed, confirmed_count,
                   elapsed_seconds, sinceResend>>
    /\ lastSendOk' = TRUE
    /\ error' = IF result' = "err" THEN OtherError(lastOp') ELSE error
    /\ lastPolled' = <<>>
    /\ UNCHANGED <<cancelRequested, navVars, ctxVars>>

\* deploy.rs:148-157: read_keypair_from_path(keypair_path)?
ReadKeypair ==
    /\ pc = "read_keypair"
    /\ lastOp' = "read_keypair"
    /\ \E ok \in BOOLEAN :
          IF ok THEN pc' = "sizing" /\ UNCHANGED result ELSE Fail
    /\ UNCHANGED <<fileExists, fileData, immutable, program_data, reliableLog,
                   write_transactions, write_signatures, wire_transactions, tpu_map,
                   discovery, client, lastBatch, lastStatuses, confirmed,
                   confirmed_count, elapsed_seconds, sinceResend>>
    /\ lastSendOk' = TRUE
    /\ error' = IF result' = "err" THEN OtherError(lastOp') ELSE error
    /\ lastPolled' = <<>>
    /\ UNCHANGED <<cancelRequested, navVars, ctxVars>>

\* deploy.rs:159-181: the two get_minimum_balance_for_rent_exemption queries.
Sizing ==
    /\ pc = "sizing"
    /\ lastOp' = "rent_query"
    /\ \E ok \in BOOLEAN :
          IF ok THEN pc' = "create_buffer" /\ UNCHANGED result ELSE Fail
    /\ UNCHANGED <<fileExists, fileData, immutable, program_data, reliableLog,
                   write_transactions, write_signatures, wire_transactions, tpu_map,
                   discovery, client, lastBatch, lastStatuses, confirmed,
                   confirmed_count, elapsed_seconds, sinceResend>>
    /\ lastSendOk' = TRUE
    /\ error' = IF result' = "err" THEN OtherError(lastOp') ELSE error
    /\ lastPolled' = <<>>
    /\ UNCHANGED <<cancelRequested, navVars, ctxVars>>

\* Variant: the result of build_and_send_tx is dropped instead of `?`.
CreateBuffer_ignoreErr ==
    /\ pc = "create_buffer"
    /\ lastOp' = "create_buffer"
    /\ \E ix_ok \in BOOLEAN, outcome \in TxOutcomes :
          IF ~ix_ok
          THEN Fail /\ UNCHANGED reliableLog
          ELSE /\ reliableLog' = build_and_send_tx(reliableLog, "create_buffer", outcome)
               /\ pc' = "prepare_writes"
               /\ UNCHANGED result
    /\ UNCHANGED <<fileExists, fileData, immutable, program_data,
                   write_transactions, write_signatures, wire_transactions, tpu_map,
                   discovery, client, lastBatch, lastStatuses, confirmed,
                   confirmed_count, elapsed_seconds, sinceResend>>
    /\ lastSendOk' = TRUE
    /\ error' = IF result' = "err" THEN OtherError(lastOp') ELSE error
    /\ lastPolled' = <<>>
    /\ UNCHANGED <<cancelRequested, navVars, ctxVars>>

\* deploy.rs:183-192: create_buffer(...)? and build_and_send_tx(...)?
CreateBuffer ==
    /\ pc = "create_buffer"
    /\ lastOp' = "create_buffer"
    /\ \E ix_ok \in BOOLEAN, outcome \in TxOutcomes :
          IF ~ix_ok
          THEN Fail /\ UNCHANGED reliableLog
          ELSE /\ reliableLog' = build_and_send_tx(reliableLog, "create_buffer", outcome)
               /\ IF outcome = "ok"
                  THEN pc' = "prepare_writes" /\ UNCHANGED result
                  ELSE Fail
    /\ UNCHANGED <<fileExists, fileData, immutable, program_data,
                   write_transactions, write_signatures, wire_transactions, tpu_map,
                   discovery, client, lastBatch, lastStatuses, confirmed,
                   confirmed_count, elapsed_seconds, sinceResend>>
    /\ lastSendOk' = TRUE
    /\ error' = IF result' = "err" THEN OtherError(lastOp') ELSE error
    /\ lastPolled' = <<>>
    /\ UNCHANGED <<cancelRequested, navVars, ctxVars>>

\* deploy.rs:194-230: get_latest_blockhash, then one signed write transaction
\* per chunk of program_data.
PrepareWrites ==
    /\ pc = "prepare_writes"
    /\ lastOp' = "get_latest_blockhash"
    /\ \E rpc_ok \in BOOLEAN, sign_ok \in BOOLEAN, blockhash \in Blockhashes :
          IF ~rpc_ok \/ (~sign_ok /\ Len(program_data) > 0)
          THEN Fail /\ UNCHANGED <<write_transactions, write_signatures>>
          ELSE /\ write_transactions' = BuildWriteTransactions(program_data, blockhash)
               /\ write_signatures' =
                      [k \in DOMAIN write_transactions' |-> SignatureOf(write_transactions'[k])]
               /\ pc' = "discover"
               /\ UNCHANGED result
    /\ UNCHANGED <<fileExists, fileData, immutable, program_data, reliableLog,
                   wire_transactions, tpu_map, discovery, client, lastBatch,
                   lastStatuses, confirmed, confirmed_count, elapsed_seconds,
                   sinceResend>>
    /\ lastSendOk' = TRUE
    /\ error' = IF result' = "err" THEN OtherError(lastOp') ELSE error
    /\ lastPolled' = <<>>
    /\ UNCHANGED <<cancelRequested, navVars, ctxVars>>

\* Variant: the is_empty test on tpu_map is missing.
RpcLeaderUpdater_new_noEmptyCheck(nodes) == [ok |-> TRUE, tpu_map |-> BuildTpuMap(nodes)]

\* deploy.rs:232-233 and RpcLeaderUpdater::new (56-87): get_cluster_nodes,
\* keep the nodes that advertise a QUIC port and whose pubkey parses, bail
\* when the map is empty.
RpcLeaderUpdater_new(nodes) ==
    IF BuildTpuMap(nodes) = {} THEN [ok |-> FALSE, tpu_map |-> {}]
    ELSE [ok |-> TRUE, tpu_map |-> BuildTpuMap(nodes)]

Discover ==
    /\ pc = "discover"
    /\ lastOp' = "get_cluster_nodes"
    /\ \E rpc_ok \in BOOLEAN, nodes \in ClusterNodeSets :
          IF ~rpc_ok
          THEN Fail /\ discovery' = "rpc_err" /\ UNCHANGED tpu_map
          ELSE LET r == RpcLeaderUpdater_new(nodes)
               IN  /\ discovery' = IF AdvertisesQuic(nodes) THEN "quic" ELSE "empty"
                   /\ tpu_map' = r.tpu_map
                   /\ IF r.ok THEN pc' = "setup_client" /\ UNCHANGED result ELSE Fail
    /\ UNCHANGED <<fileExists, fileData, immutable, program_data, reliableLog,
                   write_transactions, write_signatures, wire_transactions, client,
                   lastBatch, lastStatuses, confirmed, confirmed_count,
                   elapsed_seconds, sinceResend>>
    /\ lastSendOk' = TRUE
    /\ error' = IF result' = "err" THEN OtherError(lastOp') ELSE error
    /\ lastPolled' = <<>>
    /\ UNCHANGED <<cancelRequested, navVars, ctxVars>>

\* deploy.rs:235-255: bind the socket, build the TPU client (the leader
\* updater is moved into it), serialize the write transactions.
SetupClient ==
    /\ pc = "setup_client"
    /\ lastOp' = "client_build"
    /\ \E bind_ok \in BOOLEAN, build_ok \in BOOLEAN, ser_ok \in BOOLEAN :
          IF ~bind_ok \/ ~build_ok
          THEN Fail /\ UNCHANGED <<client, wire_transactions, tpu_map>>
          ELSE /\ client' = "open"
               /\ tpu_map' = {}
               /\ IF ~ser_ok /\ Len(write_transactions) > 0
                  THEN Fail /\ UNCHANGED wire_transactions
                  ELSE /\ wire_transactions' =
                              [k \in DOMAIN write_transactions |-> Serialize(write_transactions[k])]
                       /\ pc' = "send_initial"
                       /\ UNCHANGED result
    /\ UNCHANGED <<fileExists, fileData, immutable, program_data, reliableLog,
                   write_transactions, write_signatures, discovery, lastBatch,
                   lastStatuses, confirmed, confirmed_count, elapsed_seconds,
                   sinceResend>>
    /\ lastSendOk' = TRUE
    /\ error' = IF result' = "err" THEN OtherError(lastOp') ELSE error
    /\ lastPolled' = <<>>
    /\ UNCHANGED <<cancelRequested, navVars, ctxVars>>

\* deploy.rs:257-274: the initial batch send (`?` on its error) and the
\* initialisation of the confirmation loop's state.
SendInitial ==
    /\ pc = "send_initial"
    /\ lastOp' = "send_initial"
    /\ lastBatch' = wire_transactions
    /\ \E send_ok \in BOOLEAN :
          /\ lastSendOk' = send_ok
          /\ IF ~send_ok
             THEN Fail /\ UNCHANGED <<confirmed, confirmed_count, sinceResend>>
             ELSE
               /\ confirmed' = [k \in DOMAIN write_transactions |-> FALSE]
               /\ confirmed_count' = 0
               /\ sinceResend' = 0
               /\ pc' = IF 0 < max_wait_seconds THEN "poll" ELSE "shutdown"
               /\ UNCHANGED result
    /\ UNCHANGED <<fileExists, fileData, immutable, program_data, reliableLog,
                   write_transactions, write_signatures, wire_transactions, tpu_map,
                   discovery, client, lastStatuses, elapsed_seconds>>
    /\ error' = IF result' = "err" THEN OtherError(lastOp') ELSE error
    /\ lastPolled' = <<>>
    /\ UNCHANGED <<cancelRequested, navVars, ctxVars>>

\* Variant: a re-send is due whatever time has passed.
ResendDue_always(since) == TRUE

\* deploy.rs:317: last_resend.elapsed() >= resend_interval
ResendDue(since) == since >= resend_interval

\* Variant: the unconfirmed transactions are signed again with a newer blockhash.
ResendBatch_resigned(wire, conf) ==
    LET old == FilterUnconfirmed(wire, conf, 1)
    IN  [j \in DOMAIN old |->
            <<"wire", <<"sig", old[j][3], old[j][4], "bh2">>, old[j][3], old[j][4], "bh2">>]

\* Variant: the filter on confirmed is missing, every transaction is re-sent.
ResendBatch_all(wire, conf) == wire

\* deploy.rs:318-323
ResendBatch(wire, conf) == FilterUnconfirmed(wire, conf, 1)

\* deploy.rs:302-314: the `break` test after the statuses were processed.
AllConfirmed(count) == count = Len(write_transactions)

\* Variant: only the signatures of the unconfirmed chunks are asked for.
PolledSignatures_unconfirmed(sigs, conf) == FilterUnconfirmed(sigs, conf, 1)

\* deploy.rs:278: get_signature_statuses(&write_signatures)
PolledSignatures(sigs, conf) == sigs

\* Variant: the list of transactions to re-send is taken and sent before the
\* statuses of this round are processed.
Poll_staleResend ==
    /\ pc = "poll"
    /\ \E rpc_ok \in BOOLEAN, dt \in 0..1,
          statuses \in [DOMAIN write_signatures -> StatusValues] :
          IF ~rpc_ok
          THEN /\ Fail
               /\ lastOp' = "get_signature_statuses"
               /\ lastBatch' = <<>>
               /\ UNCHANGED <<confirmed, confirmed_count, lastStatuses, sinceResend>>
          ELSE LET r == ProcessStatuses(statuses, confirmed, confirmed_count, 1)
                   since == Min(sinceResend + dt, resend_interval)
                   batch == ResendBatch(wire_transactions, confirmed)
               IN  /\ confirmed' = r[1]
                   /\ confirmed_count' = r[2]
                   /\ lastStatuses' = statuses
                   /\ IF ResendDue(since) /\ batch # <<>>
                      THEN lastBatch' = batch /\ lastOp' = "resend" /\ sinceResend' = 0
                      ELSE /\ lastOp' = "get_signature_statuses"
                           /\ sinceResend' = since
                           /\ lastBatch' = <<>>
                   /\ pc' = IF AllConfirmed(r[2]) THEN "shutdown" ELSE "sleep"
                   /\ UNCHANGED result
    /\ UNCHANGED <<fileExists, fileData, immutable, program_data, reliableLog,
                   write_transactions, write_signatures, wire_transactions, tpu_map,
                   discovery, client, elapsed_seconds>>
    /\ lastSendOk' = TRUE
    /\ error' = IF result' = "err" THEN OtherError(lastOp') ELSE error
    /\ lastPolled' = PolledSignatures(write_signatures, confirmed)
    /\ UNCHANGED <<cancelRequested, navVars, ctxVars>>

\* deploy.rs:276-314: get_signature_statuses(&write_signatures)?, the update
\* of confirmed/confirmed_count, and the `break` when all are confirmed.
\* The call takes dt seconds.
Poll ==
    /\ pc = "poll"
    /\ lastOp' = "get_signature_statuses"
    /\ lastBatch' = <<>>
    /\ \E rpc_ok \in BOOLEAN, dt \in 0..1,
          statuses \in [DOMAIN write_signatures -> StatusValues] :
          IF ~rpc_ok
          THEN Fail /\ UNCHANGED <<confirmed, confirmed_count, lastStatuses, sinceResend>>
          ELSE LET r == ProcessStatuses(statuses, confirmed, confirmed_count, 1)
               IN  /\ confirmed' = r[1]
                   /\ confirmed_count' = r[2]
                   /\ lastStatuses' = statuses
                   /\ sinceResend' = Min(sinceResend + dt, resend_interval)
                   /\ pc' = IF AllConfirmed(r[2]) THEN "shutdown" ELSE "resend"
                   /\ UNCHANGED result
    /\ UNCHANGED <<fileExists, fileData, immutable, program_data, reliableLog,
                   write_transactions, write_signatures, wire_transactions, tpu_map,
                   discovery, client, elapsed_seconds>>
    /\ lastSendOk' = TRUE
    /\ error' = IF result' = "err" THEN OtherError(lastOp') ELSE error
    /\ lastPolled' = PolledSignatures(write_signatures, confirmed)
    /\ UNCHANGED <<cancelRequested, navVars, ctxVars>>

\* Variant: the error of the re-send is propagated with `?`.
Resend_propagateErr ==
    /\ pc = "resend"
    /\ IF ResendDue(sinceResend) /\ ResendBatch(wire_transactions, confirmed) # <<>>
       THEN /\ lastBatch' = ResendBatch(wire_transactions, confirmed)
            /\ lastOp' = "resend"
            /\ sinceResend' = 0
            /\ lastSendOk' \in BOOLEAN
       ELSE /\ lastOp' = "no_resend"
            /\ lastBatch' = <<>>
            /\ lastSendOk' = TRUE
            /\ UNCHANGED sinceResend
    /\ lastStatuses' = <<>>
    /\ IF lastSendOk' THEN pc' = "sleep" /\ UNCHANGED result ELSE Fail
    /\ UNCHANGED <<fileExists, fileData, immutable, program_data, reliableLog,
                   write_transactions, write_signatures, wire_transactions, tpu_map,
                   discovery, client, confirmed, confirmed_count, elapsed_seconds>>
    /\ error' = IF result' = "err" THEN OtherError(lastOp') ELSE error
    /\ lastPolled' = <<>>
    /\ UNCHANGED <<cancelRequested, navVars, ctxVars>>

\* deploy.rs:316-332: re-send the unconfirmed transactions when the interval
\* has passed; the result of the send is ignored.
Resend ==
    /\ pc = "resend"
    /\ IF ResendDue(sinceResend) /\ ResendBatch(wire_transactions, confirmed) # <<>>
       THEN /\ lastBatch' = ResendBatch(wire_transactions, confirmed)
            /\ lastOp' = "resend"
            /\ sinceResend' = 0
            /\ lastSendOk' \in BOOLEAN
       ELSE /\ lastOp' = "no_resend"
            /\ lastBatch' = <<>>
            /\ lastSendOk' = TRUE
            /\ UNCHANGED sinceResend
    /\ lastStatuses' = <<>>
    /\ pc' = "sleep"
    /\ UNCHANGED <<result, fileExists, fileData, immutable, program_data, reliableLog,
                   write_transactions, write_signatures, wire_transactions, tpu_map,
                   discovery, client, confirmed, confirmed_count, elapsed_seconds>>
    /\ error' = IF result' = "err" THEN OtherError(lastOp') ELSE error
    /\ lastPolled' = <<>>
    /\ UNCHANGED <<cancelRequested, navVars, ctxVars>>

\* Variant: the loop has no bound, `loop { ... }` instead of the for loop.
Sleep_unbounded ==
    /\ pc = "sleep"
    /\ lastOp' = "sleep"
    /\ lastBatch' = <<>>
    /\ \E dt \in 1..2 : sinceResend' = Min(sinceResend + dt, resend_interval)
    /\ elapsed_seconds' = Min(elapsed_seconds + 1, max_wait_seconds - 1)
    /\ pc' = "poll"
    /\ UNCHANGED <<result, fileExists, fileData, immutable, program_data, reliableLog,
                   write_transactions, write_signatures, wire_transactions, tpu_map,
                   discovery, client, lastStatuses, confirmed,
                   confirmed_count>>
    /\ lastSendOk' = TRUE
    /\ error' = IF result' = "err" THEN OtherError(lastOp') ELSE error
    /\ lastPolled' = <<>>
    /\ UNCHANGED <<cancelRequested, navVars, ctxVars>>

\* deploy.rs:334-348: the one-second sleep and the step of the for loop.
Sleep ==
    /\ pc = "sleep"
    /\ lastOp' = "sleep"
    /\ lastBatch' = <<>>
    /\ \E dt \in 1..2 : sinceResend' = Min(sinceResend + dt, resend_interval)
    /\ elapsed_seconds' = elapsed_seconds + 1
    /\ pc' = IF elapsed_seconds + 1 < max_wait_seconds THEN "poll" ELSE "shutdown"
    /\ UNCHANGED <<result, fileExists, fileData, immutable, program_data, reliableLog,
                   write_transactions, write_signatures, wire_transactions, tpu_map,
                   discovery, client, lastStatuses, confirmed,
                   confirmed_count>>
    /\ lastSendOk' = TRUE
    /\ error' = IF result' = "err" THEN OtherError(lastOp') ELSE error
    /\ lastPolled' = <<>>
    /\ UNCHANGED <<cancelRequested, navVars, ctxVars>>

\* Variant: the test tolerates one missing chunk.
ConfirmationExhausted_off_by_one(count) == count + 1 < Len(write_transactions)

\* Variant: the test is missing.
ConfirmationExhausted_never(count) == FALSE

\* deploy.rs:356-368: the bail! when fewer than all chunks are confirmed.
ConfirmationExhausted(count) == count < Len(write_transactions)

\* deploy.rs:350-373: client.shutdown()? and the test of confirmed_count.
Shutdown ==
    /\ pc = "shutdown"
    /\ lastOp' = "shutdown"
    /\ client' = "closed"
    /\ lastStatuses' = <<>>
    /\ lastBatch' = <<>>
    /\ \E shutdown_ok \in BOOLEAN :
          IF ~shutdown_ok
          THEN Fail /\ error' = OtherError("shutdown")
          ELSE IF ConfirmationExhausted(confirmed_count)
          THEN Fail /\ error' = ExhaustedError(confirmed_count, Len(write_transactions))
          ELSE pc' = "deploy" /\ UNCHANGED <<result, error>>
    /\ UNCHANGED <<fileExists, fileData, immutable, program_data, reliableLog,
                   write_transactions, write_signatures, wire_transactions, tpu_map,
                   discovery, confirmed, confirmed_count, elapsed_seconds,
                   sinceResend>>
    /\ lastSendOk' = TRUE
    /\ lastPolled' = <<>>
    /\ UNCHANGED <<cancelRequested, navVars, ctxVars>>

\* Variant: the result of the finalize submission is dropped instead of `?`.
DeployFromBuffer_ignoreErr ==
    /\ pc = "deploy"
    /\ lastOp' = "deploy"
    /\ \E ix_ok \in BOOLEAN, outcome \in TxOutcomes :
          IF ~ix_ok
          THEN Fail /\ UNCHANGED reliableLog
          ELSE /\ reliableLog' = build_and_send_tx(reliableLog, "deploy", outcome)
               /\ IF immutable THEN pc' = "revoke" /\ UNCHANGED result
                  ELSE pc' = "done" /\ result' = "ok"
    /\ UNCHANGED <<fileExists, fileData, immutable, program_data,
                   write_transactions, write_signatures, wire_transactions, tpu_map,
                   discovery, client, lastBatch, lastStatuses, confirmed,
                   confirmed_count, elapsed_seconds, sinceResend>>
    /\ lastSendOk' = TRUE
    /\ error' = IF result' = "err" THEN OtherError(lastOp') ELSE error
    /\ lastPolled' = <<>>
    /\ UNCHANGED <<cancelRequested, navVars, ctxVars>>

\* Variant: the authority is revoked whatever `immutable` says.
DeployFromBuffer_alwaysRevoke ==
    /\ pc = "deploy"
    /\ lastOp' = "deploy"
    /\ \E ix_ok \in BOOLEAN, outcome \in TxOutcomes :
          IF ~ix_ok
          THEN Fail /\ UNCHANGED reliableLog
          ELSE /\ reliableLog' = build_and_send_tx(reliableLog, "deploy", outcome)
               /\ IF outcome # "ok" THEN Fail
                  ELSE pc' = "revoke" /\ UNCHANGED result
    /\ UNCHANGED <<fileExists, fileData, immutable, program_data,
                   write_transactions, write_signatures, wire_transactions, tpu_map,
                   discovery, client, lastBatch, lastStatuses, confirmed,
                   confirmed_count, elapsed_seconds, sinceResend>>
    /\ lastSendOk' = TRUE
    /\ error' = IF result' = "err" THEN OtherError(lastOp') ELSE error
    /\ lastPolled' = <<>>
    /\ UNCHANGED <<cancelRequested, navVars, ctxVars>>

\* deploy.rs:375-396 (and 410-421 when immutable is false):
\* deploy_with_max_program_len(...)? and build_and_send_tx(...)?
DeployFromBuffer ==
    /\ pc = "deploy"
    /\ lastOp' = "deploy"
    /\ \E ix_ok \in BOOLEAN, outcome \in TxOutcomes :
          IF ~ix_ok
          THEN Fail /\ UNCHANGED reliableLog
          ELSE /\ reliableLog' = build_and_send_tx(reliableLog, "deploy", outcome)
               /\ IF outcome # "ok" THEN Fail
                  ELSE IF immutable THEN pc' = "revoke" /\ UNCHANGED result
                  ELSE pc' = "done" /\ result' = "ok"
    /\ UNCHANGED <<fileExists, fileData, immutable, program_data,
                   write_transactions, write_signatures, wire_transactions, tpu_map,
                   discovery, client, lastBatch, lastStatuses, confirmed,
                   confirmed_count, elapsed_seconds, sinceResend>>
    /\ lastSendOk' = TRUE
    /\ error' = IF result' = "err" THEN OtherError(lastOp') ELSE error
    /\ lastPolled' = <<>>
    /\ UNCHANGED <<cancelRequested, navVars, ctxVars>>

\* deploy.rs:398-421: set_upgrade_authority(.., None) through build_and_send_tx.
RevokeAuthority ==
    /\ pc = "revoke"
    /\ lastOp' = "set_authority"
    /\ \E outcome \in TxOutcomes :
          /\ reliableLog' = build_and_send_tx(reliableLog, "set_authority", outcome)
          /\ IF outcome = "ok" THEN pc' = "done" /\ result' = "ok" ELSE Fail
    /\ UNCHANGED <<fileExists, fileData, immutable, program_data,
                   write_transactions, write_signatures, wire_transactions, tpu_map,
                   discovery, client, lastBatch, lastStatuses, confirmed,
                   confirmed_count, elapsed_seconds, sinceResend>>
    /\ lastSendOk' = TRUE
    /\ error' = IF result' = "err" THEN OtherError(lastOp') ELSE error
    /\ lastPolled' = <<>>
    /\ UNCHANGED <<cancelRequested, navVars, ctxVars>>

Next ==
    \/ ReadProgram
    \/ ReadKeypair
    \/ Sizing
    \/ CreateBuffer
    \/ PrepareWrites
    \/ Discover
    \/ SetupClient
    \/ SendInitial
    \/ Poll
    \/ Resend
    \/ Sleep
    \/ Shutdown
    \/ DeployFromBuffer
    \/ RevokeAuthority

Spec == Init /\ [][Next]_vars

TypeOK ==
    /\ pc \in {"read_program", "read_keypair", "sizing", "create_buffer",
               "prepare_writes", "discover", "setup_client", "send_initial", "poll",
               "resend", "sleep", "shutdown", "deploy", "revoke", "done"}
    /\ result \in {"running", "ok", "err"}
    /\ client \in {"none", "open", "closed"}
    /\ confirmed_count \in 0..Len(write_transactions)
    /\ elapsed_seconds \in 0..max_wait_seconds
    /\ sinceResend \in 0..resend_interval

---------------------------------------------------------------------------
(* A run during which the operator asks for cancellation.  deploy_program  *)
(* takes no cancellation handle: the CancellationToken of deploy.rs:240 is *)
(* local and handed to the TPU client only, so the request changes nothing *)
(* that deploy_program reads.                                              *)

RequestCancel ==
    /\ result = "running"
    /\ ~cancelRequested
    /\ cancelRequested' = TRUE
    /\ UNCHANGED <<deployVars, navVars, ctxVars>>

NextCancel == Next \/ RequestCancel

SpecCancel == Init /\ [][NextCancel]_vars

---------------------------------------------------------------------------
(* The chunker on its own: deploy_program right after the buffer has been  *)
(* created, for payloads of every length up to 10 * CHUNK_SIZE + 7.        *)

InitChunker ==
    /\ NavIdle
    /\ InitCommon
    /\ pc = "prepare_writes"
    /\ lastOp = "create_buffer"
    /\ fileExists = TRUE
    /\ fileData \in {Payload(n, seed) : n \in 0..ChunkerMaxLen, seed \in Seeds}
    /\ program_data = fileData
    /\ reliableLog = <<[ix |-> "create_buffer", confirmed |-> TRUE]>>

NextChunker == PrepareWrites

SpecChunker == InitChunker /\ [][NextChunker]_vars

---------------------------------------------------------------------------
(* The navigation types of misc/navigation.rs: CommandSection,             *)
(* CommandSectionNav (a bounded depth index) and AppNav (main menu or a    *)
(* section).  Each method is an operator that yields the value after the   *)
(* call and what the call returned; the actions apply them to secNav and   *)
(* appNav in any order.                                                    *)

CommandSection == {"Account", "Cluster", "Config", "Stake", "Transaction", "Vote"}

\* navigation.rs:21-30
max_depth(section) ==
    CASE section = "Cluster" -> 1
      [] section = "Account" -> 2
      [] section = "Config" -> 3
      [] section = "Transaction" -> 3
      [] section = "Vote" -> 5
      [] section = "Stake" -> 8

\* navigation.rs:46-51
CommandSectionNav_new(section) == [cmd_section |-> section, depth |-> 1]

\* navigation.rs:54-56
reset(nav) == [nav EXCEPT !.depth = 1]

\* navigation.rs:81-83
at_section_root(nav) == nav.depth = 1

\* Variant: strictly greater than the maximum.
at_max_depth_gt(nav) == nav.depth > max_depth(nav.cmd_section)

\* navigation.rs:86-88
at_max_depth(nav) == nav.depth >= max_depth(nav.cmd_section)

\* navigation.rs:61-67
push(nav) ==
    IF at_max_depth(nav)
    THEN [nav |-> nav, ret |-> "false"]
    ELSE [nav |-> [nav EXCEPT !.depth = @ + 1], ret |-> "true"]

\* Variant: no check for the section root.
pop_noRootCheck(nav) ==
    [nav |-> [nav EXCEPT !.depth = IF @ > 0 THEN @ - 1 ELSE 0], ret |-> "true"]

\* navigation.rs:72-78
pop(nav) ==
    IF at_section_root(nav)
    THEN [nav |-> nav, ret |-> "false"]
    ELSE [nav |-> [nav EXCEPT !.depth = @ - 1], ret |-> "true"]

MainMenu == [kind |-> "MainMenu"]

InSection(nav) == [kind |-> "InSection", cmd_section |-> nav.cmd_section, depth |-> nav.depth]

\* The CommandSectionNav held by AppNav::InSection.
StateOf(app) == [cmd_section |-> app.cmd_section, depth |-> app.depth]

\* Variant: the depth reached in the section that is left is carried over.
enter_section_keepDepth(app, section) ==
    IF app.kind = "MainMenu"
    THEN InSection(CommandSectionNav_new(section))
    ELSE InSection([cmd_section |-> section, depth |-> app.depth])

\* navigation.rs:108-110
enter_section(app, section) == InSection(CommandSectionNav_new(section))

\* navigation.rs:113-115
go_to_menu(app) == MainMenu

\* Variant: at the section root the section is kept.
go_back_staysInSection(app) ==
    IF app.kind = "MainMenu"
    THEN app
    ELSE InSection(pop(StateOf(app)).nav)

\* navigation.rs:121-130
go_back(app) ==
    IF app.kind = "MainMenu"
    THEN app
    ELSE LET r == pop(StateOf(app))
         IN  IF r.ret = "false" THEN MainMenu ELSE InSection(r.nav)

\* navigation.rs:135-140
forward(app) ==
    IF app.kind = "MainMenu"
    THEN [app |-> app, ret |-> "false"]
    ELSE LET r == push(StateOf(app))
         IN  [app |-> InSection(r.nav), ret |-> r.ret]

\* Consecutive go_back calls are counted up to one more than the deepest section.
MaxBack == max_depth("Stake") + 1

InitNav ==
    /\ NavIdle
    /\ InitCommon
    /\ pc = "read_program"
    /\ lastOp = "none"
    /\ fileExists = FALSE
    /\ fileData = <<>>
    /\ program_data = <<>>
    /\ reliableLog = <<>>

Nav_new ==
    \E section \in CommandSection :
        /\ secNav' = CommandSectionNav_new(section)
        /\ navOp' = "new"
        /\ navArg' = section
        /\ navRet' = "none"
        /\ backCount' = 0
        /\ UNCHANGED <<appNav, deployVars, cancelRequested, ctxVars>>

Nav_reset ==
    /\ secNav' = reset(secNav)
    /\ navOp' = "reset"
    /\ navArg' = "none"
    /\ navRet' = "none"
    /\ backCount' = 0
    /\ UNCHANGED <<appNav, deployVars, cancelRequested, ctxVars>>

Nav_push ==
    /\ secNav' = push(secNav).nav
    /\ navOp' = "push"
    /\ navArg' = "none"
    /\ navRet' = push(secNav).ret
    /\ backCount' = 0
    /\ UNCHANGED <<appNav, deployVars, cancelRequested, ctxVars>>

Nav_pop ==
    /\ secNav' = pop(secNav).nav
    /\ navOp' = "pop"
    /\ navArg' = "none"
    /\ navRet' = pop(secNav).ret
    /\ backCount' = 0
    /\ UNCHANGED <<appNav, deployVars, cancelRequested, ctxVars>>

App_enter_section ==
    \E section \in CommandSection :
        /\ appNav' = enter_section(appNav, section)
        /\ navOp' = "enter_section"
        /\ navArg' = section
        /\ navRet' = "none"
        /\ backCount' = 0
        /\ UNCHANGED <<secNav, deployVars, cancelRequested, ctxVars>>

App_go_to_menu ==
    /\ appNav' = go_to_menu(appNav)
    /\ navOp' = "go_to_menu"
    /\ navArg' = "none"
    /\ navRet' = "none"
    /\ backCount' = 0
    /\ UNCHANGED <<secNav, deployVars, cancelRequested, ctxVars>>

App_go_back ==
    /\ appNav' = go_back(appNav)
    /\ navOp' = "go_back"
    /\ navArg' = "none"
    /\ navRet' = "none"
    /\ backCount' = Min(backCount + 1, MaxBack)
    /\ UNCHANGED <<secNav, deployVars, cancelRequested, ctxVars>>

App_forward ==
    /\ appNav' = forward(appNav).app
    /\ navOp' = "forward"
    /\ navArg' = "none"
    /\ navRet' = forward(appNav).ret
    /\ backCount' = 0
    /\ UNCHANGED <<secNav, deployVars, cancelRequested, ctxVars>>

NextNav ==
    \/ Nav_new
    \/ Nav_reset
    \/ Nav_push
    \/ Nav_pop
    \/ App_enter_section
    \/ App_go_to_menu
    \/ App_go_back
    \/ App_forward

SpecNav == InitNav /\ [][NextNav]_vars

---------------------------------------------------------------------------
(* The section stack of crates/scilla/src/commands/navigation.rs.  Each    *)
(* method is an operator on the stack; an Option<NavigationSection> is the *)
(* section or "None".                                                      *)

\* crates/scilla/src/commands/navigation.rs:21
MAX_INTERACTION_DEPTH == 4

NavigationSection ==
    {"Main", "Account", "Cluster", "Program", "ProgramLegacy", "ProgramV4",
     "Stake", "Vote", "Transaction", "ScillaConfig", "Exit"}

\* Vec::contains
Contains(st, section) == \E i \in 1..Len(st) : st[i] = section

\* NavContext::new, navigation.rs:132-136
NavContext_new == <<"Main">>

\* NavContext::current, navigation.rs:148-150
current(st) == IF Len(st) = 0 THEN "None" ELSE st[Len(st)]

\* NavContext::pop_and_get_previous, navigation.rs:142-145: Vec::pop, then current.
pop_and_get_previous(st) ==
    LET popped == IF Len(st) = 0 THEN st ELSE SubSeq(st, 1, Len(st) - 1)
    IN  [stack |-> popped, ret |-> current(popped)]

\* NavContext::reset_navigation_to, navigation.rs:154-157
reset_navigation_to(st, section) == <<section>>

\* NavContext::reset_navigation_to_main, navigation.rs:161-163
reset_navigation_to_main(st) == reset_navigation_to(st, "Main")

\* Variant: a section already on the stack is pushed again.
checked_push_noContains(st, section) ==
    IF Len(st) = MAX_INTERACTION_DEPTH
    THEN [stack |-> st, panic |-> TRUE]
    ELSE [stack |-> Append(st, section), panic |-> FALSE]

\* NavContext::checked_push, navigation.rs:169-178
checked_push(st, section) ==
    IF Contains(st, section)
    THEN [stack |-> st, panic |-> FALSE]
    ELSE IF Len(st) = MAX_INTERACTION_DEPTH
         THEN [stack |-> st, panic |-> TRUE]
         ELSE [stack |-> Append(st, section), panic |-> FALSE]

\* A NavContext whose methods are called in any order with any section.
Ctx_checked_push ==
    \E section \in NavigationSection :
        /\ ctxPanic = "none"
        /\ stack' = checked_push(stack, section).stack
        /\ ctxPanic' = IF checked_push(stack, section).panic
                       THEN "navigation stack exceeded" ELSE "none"
        /\ ctxOp' = "checked_push"
        /\ ctxArg' = section
        /\ ctxRet' = "none"
        /\ UNCHANGED <<res, asked, deployVars, cancelRequested, navVars>>

Ctx_pop_and_get_previous ==
    /\ ctxPanic = "none"
    /\ stack' = pop_and_get_previous(stack).stack
    /\ ctxRet' = pop_and_get_previous(stack).ret
    /\ ctxOp' = "pop_and_get_previous"
    /\ ctxArg' = "none"
    /\ UNCHANGED <<ctxPanic, res, asked, deployVars, cancelRequested, navVars>>

Ctx_reset_navigation_to ==
    \E section \in NavigationSection :
        /\ ctxPanic = "none"
        /\ stack' = reset_navigation_to(stack, section)
        /\ ctxOp' = "reset_navigation_to"
        /\ ctxArg' = section
        /\ ctxRet' = "none"
        /\ UNCHANGED <<ctxPanic, res, asked, deployVars, cancelRequested, navVars>>

NextNavCtx ==
    \/ Ctx_checked_push
    \/ Ctx_pop_and_get_previous
    \/ Ctx_reset_navigation_to

SpecNavCtx == InitNav /\ [][NextNavCtx]_vars

---------------------------------------------------------------------------
(* The interactive loop of crates/scilla/src/main.rs over the commands     *)
(* whose process_command is in the sources: MainCommand, ProgramCommand    *)
(* with ProgramShared, and TransactionCommand.  A step is one pass of the  *)
(* loop; `a` is what the user answers to the prompts the pass shows, where *)
(* "prompt_err" is a prompt that returns an error.                         *)

MainChoices == {"Program", "Transaction", "Exit", "prompt_err"}

ProgramChoices == {"ProgramLegacy", "ProgramV4", "GoBack", "prompt_err"}

SharedChoices == {"Deploy", "Upgrade", "Build", "Close", "Extend", "GoBack", "prompt_err"}

GoBackChoices == {"Main Section", "Previous Section", "prompt_err"}

TransactionChoices ==
    {"CheckConfirmation", "FetchStatus", "FetchTransaction", "SendTransaction",
     "SimulateTransaction", "GoBack", "prompt_err"}

Answers ==
    [main : MainChoices, program : ProgramChoices, shared : SharedChoices,
     goback : GoBackChoices, transaction : TransactionChoices]

\* What a command leaves behind: the stack, the CommandFlow it returned
\* ("Err" for an anyhow error, "Panic" when it panicked), the answers it read.
Out(st, flow, answered, panic) ==
    [stack |-> st, flow |-> flow, asked |-> answered, panic |-> panic]

\* prompt_go_back, prompt.rs:321-333: the prompt result is unwrapped.
prompt_go_back(a) ==
    CASE a.goback = "Main Section" -> "NavigateTo_MainSection"
      [] a.goback = "Previous Section" -> "NavigateTo_PreviousSection"
      [] a.goback = "prompt_err" -> "Panic"

\* ProgramShared::process_command, program/mod.rs:65-76
ProgramShared_process_command(st, a, answered) ==
    IF a.shared = "GoBack"
    THEN Out(st, prompt_go_back(a), answered \o <<"GoBack", a.goback>>,
             IF prompt_go_back(a) = "Panic" THEN "unwrap on a prompt error" ELSE "none")
    ELSE Out(st, "Panic", answered \o <<a.shared>>, "not yet implemented")

\* ProgramCommand::process_command, program/mod.rs:100-123
ProgramCommand_process_command(st, cmd, a, answered) ==
    LET r1 == checked_push(st, "Program")
    IN  IF r1.panic THEN Out(r1.stack, "Panic", answered, "navigation stack exceeded")
        ELSE IF cmd = "GoBack"
        THEN Out(r1.stack, "NavigateTo_PreviousSection", answered, "none")
        ELSE LET r2 == checked_push(r1.stack, cmd)
             IN  IF r2.panic
                 THEN Out(r2.stack, "Panic", answered, "navigation stack exceeded")
                 ELSE IF a.shared = "prompt_err"
                 THEN Out(r2.stack, "Err", answered \o <<"prompt_err">>, "none")
                 ELSE ProgramShared_process_command(r2.stack, a, answered)

\* Variant: the command does not push its section.
TransactionCommand_process_command_noPush(st, cmd, a, answered) ==
    IF cmd = "GoBack"
    THEN Out(st, "NavigateTo_PreviousSection", answered, "none")
    ELSE Out(st, "Processed", answered, "none")

\* TransactionCommand::process_command, transaction.rs:59-133
TransactionCommand_process_command(st, cmd, a, answered) ==
    LET r == checked_push(st, "Transaction")
    IN  IF r.panic THEN Out(r.stack, "Panic", answered, "navigation stack exceeded")
        ELSE IF cmd = "GoBack"
        THEN Out(r.stack, "NavigateTo_PreviousSection", answered, "none")
        ELSE Out(r.stack, "Processed", answered, "none")

\* MainCommand::process_command, main_command.rs:44-65
MainCommand_process_command(st, cmd, a, answered) ==
    LET r == checked_push(st, "Main")
    IN  IF r.panic THEN Out(r.stack, "Panic", answered, "navigation stack exceeded")
        ELSE CASE cmd = "Exit" -> Out(r.stack, "Exit", answered, "none")
               [] cmd = "Program" ->
                    IF a.program = "prompt_err"
                    THEN Out(r.stack, "Err", answered \o <<"prompt_err">>, "none")
                    ELSE ProgramCommand_process_command(r.stack, a.program, a,
                                                        answered \o <<a.program>>)
               [] cmd = "Transaction" ->
                    IF a.transaction = "prompt_err"
                    THEN Out(r.stack, "Err", answered \o <<"prompt_err">>, "none")
                    ELSE TransactionCommand_process_command(r.stack, a.transaction, a,
                                                            answered \o <<a.transaction>>)

\* NavigationSection::prompt_and_process_command, navigation.rs:62-115
prompt_and_process_command(section, st, a) ==
    CASE section = "Main" ->
            IF a.main = "prompt_err" THEN Out(st, "Err", <<"prompt_err">>, "none")
            ELSE MainCommand_process_command(st, a.main, a, <<a.main>>)
      [] section = "Program" ->
            IF a.program = "prompt_err" THEN Out(st, "Err", <<"prompt_err">>, "none")
            ELSE ProgramCommand_process_command(st, a.program, a, <<a.program>>)
      [] section \in {"ProgramLegacy", "ProgramV4"} ->
            ProgramCommand_process_command(st, section, a, <<>>)
      [] section = "Transaction" ->
            IF a.transaction = "prompt_err" THEN Out(st, "Err", <<"prompt_err">>, "none")
            ELSE TransactionCommand_process_command(st, a.transaction, a, <<a.transaction>>)
      [] section = "Exit" -> Out(st, "Exit", <<>>, "none")

\* The end of a pass: `res` and the NavContext take what the command left.
Take(out) ==
    /\ stack' = out.stack
    /\ res' = out.flow
    /\ asked' = out.asked
    /\ ctxPanic' = out.panic

\* main.rs:44-46: the first prompt, before the loop.
Main_start ==
    /\ res = "start"
    /\ \E a \in Answers : Take(prompt_and_process_command("Main", stack, a))
    /\ ctxOp' = "none"
    /\ ctxRet' = "none"
    /\ UNCHANGED <<ctxArg, deployVars, cancelRequested, navVars>>

\* main.rs:50-56
Main_Processed ==
    /\ res = "Processed"
    /\ ctxOp' = "current"
    /\ ctxRet' = current(stack)
    /\ IF current(stack) = "None"
       THEN Take(Out(stack, "Panic", <<>>, "navigation stack is empty"))
       ELSE \E a \in Answers : Take(prompt_and_process_command(current(stack), stack, a))
    /\ UNCHANGED <<ctxArg, deployVars, cancelRequested, navVars>>

\* main.rs:58-63
Main_NavigateTo_MainSection ==
    /\ res = "NavigateTo_MainSection"
    /\ ctxOp' = "reset_navigation_to_main"
    /\ ctxRet' = "none"
    /\ \E a \in Answers :
          Take(prompt_and_process_command("Main", reset_navigation_to_main(stack), a))
    /\ UNCHANGED <<ctxArg, deployVars, cancelRequested, navVars>>

\* main.rs:64-78
Main_NavigateTo_PreviousSection ==
    /\ res = "NavigateTo_PreviousSection"
    /\ ctxOp' = "pop_and_get_previous"
    /\ LET r == pop_and_get_previous(stack)
       IN  /\ ctxRet' = r.ret
           /\ IF r.ret = "None"
              THEN Take(Out(r.stack, "Panic", <<>>, "navigation stack is empty"))
              ELSE \E a \in Answers : Take(prompt_and_process_command(r.ret, r.stack, a))
    /\ UNCHANGED <<ctxArg, deployVars, cancelRequested, navVars>>

\* main.rs:80-86: break, main returns.
Main_Exit ==
    /\ res = "Exit"
    /\ res' = "Returned"
    /\ ctxOp' = "none"
    /\ ctxRet' = "none"
    /\ asked' = <<>>
    /\ UNCHANGED <<stack, ctxPanic, ctxArg, deployVars, cancelRequested, navVars>>

NextMain ==
    \/ Main_start
    \/ Main_Processed
    \/ Main_NavigateTo_MainSection
    \/ Main_NavigateTo_PreviousSection
    \/ Main_Exit

SpecMain == InitNav /\ [][NextMain]_vars

---------------------------------------------------------------------------
(* Vocabulary of the properties *)

ReliableIxs == {"create_buffer", "deploy", "set_authority"}

\* Submissions on the reliable channel of the given instruction.
Submissions(ix) == SelectSeq(reliableLog, LAMBDA e : e.ix = ix)

\* Submissions on the reliable channel that are none of the three
\* instructions above, i.e. write-chunk transactions.
ReliableWrites == SelectSeq(reliableLog, LAMBDA e : e.ix \notin ReliableIxs)

FinalizeSubmitted == Len(Submissions("deploy")) > 0

NumChunks == Len(write_transactions)

\* The for loop ran through all its max_wait_seconds iterations.
LoopExhausted == elapsed_seconds = max_wait_seconds

\* The initial broadcast has been made.
LoopOps == {"send_initial", "get_signature_statuses", "resend", "no_resend",
            "sleep", "shutdown", "deploy", "set_authority"}

BroadcastAttempted == lastOp \in LoopOps

InOrAfterLoop == pc \in {"poll", "resend", "sleep", "shutdown", "deploy", "revoke"}

---------------------------------------------------------------------------
(* Properties *)

\* C1: the finalize (deploy-from-buffer) instruction is submitted only in a
\* state where confirmed_count equals the number of chunks and every flag is
\* set; once the confirmation loop has ended (the client was shut down) with
\* a chunk still unconfirmed, deploy_program has returned an error and the
\* finalize instruction was not submitted.
C1_FinalizeOnlyWhenAllConfirmed ==
    /\ FinalizeSubmitted =>
          /\ confirmed_count = NumChunks
          /\ Len(confirmed) = NumChunks
          /\ Unconfirmed(confirmed) = {}
    /\ (client = "closed" /\ Unconfirmed(confirmed) # {}) =>
          /\ pc = "done"
          /\ result = "err"
          /\ ~FinalizeSubmitted

C1_Witness ==
    /\ FinalizeSubmitted
    /\ NumChunks >= 2
    /\ elapsed_seconds > 0

C3_TransportClosedOnEveryExit ==
    (pc = "done" /\ client # "none") => client = "closed"

\* C4: the batch of every re-broadcast consists of exactly the serialized
\* transactions of the chunks that are unconfirmed at that moment, each once.
C4_ResendSelectivity ==
    lastOp = "resend" =>
        /\ \A k \in DOMAIN confirmed :
              (~confirmed[k]) <=> (\E j \in DOMAIN lastBatch : lastBatch[j] = wire_transactions[k])
        /\ \A j \in DOMAIN lastBatch :
              \E k \in DOMAIN confirmed : lastBatch[j] = wire_transactions[k]
        /\ Len(lastBatch) = Cardinality(Unconfirmed(confirmed))

C4_Witness ==
    /\ lastOp = "resend"
    /\ NumChunks >= 3
    /\ Unconfirmed(confirmed) = {2}

\* C5: no batch send happens in the step in which all chunks become
\* confirmed, nor in any later step.
C5_NoBroadcastOnceAllConfirmed ==
    [][ /\ (pc' \in {"shutdown", "deploy", "revoke", "done"} /\ client' # "none"
            /\ Unconfirmed(confirmed') = {} /\ confirmed_count' = NumChunks')
           => lastOp' # "resend"
        /\ ((InOrAfterLoop /\ Unconfirmed(confirmed) = {})
           => lastOp' \notin {"resend", "send_initial"})
      ]_vars

C5_Witness ==
    /\ pc = "shutdown"
    /\ NumChunks >= 2
    /\ Unconfirmed(confirmed) = {}
    /\ sinceResend = resend_interval
    /\ elapsed_seconds > 0

\* C6: a confirmed flag that is true stays true in every later state,
\* whatever the later polls return.
C6_ConfirmedMonotonic ==
    [][ \A k \in DOMAIN confirmed :
            confirmed[k] => (k \in DOMAIN confirmed' /\ confirmed'[k]) ]_vars

C6_Witness ==
    /\ pc = "resend"
    /\ \E k \in DOMAIN confirmed : confirmed[k] /\ lastStatuses[k] = "none"

\* C7: for a payload of length L the chunker builds ceil(L / CHUNK_SIZE)
\* write transactions; chunk i has offset i * CHUNK_SIZE, every chunk but the
\* last has length CHUNK_SIZE, the last has length L - (n-1) * CHUNK_SIZE > 0,
\* chunks do not overlap, and their concatenation is the payload.
C7_ChunksPartitionPayload ==
    pc = "discover" =>
        LET n == Len(write_transactions)
            L == Len(program_data)
            bytes == [k \in 1..n |-> write_transactions[k].bytes]
        IN  /\ n = CeilDiv(L, CHUNK_SIZE)
            /\ \A k \in 1..n : write_transactions[k].offset = (k - 1) * CHUNK_SIZE
            /\ \A k \in 1..(n - 1) : Len(bytes[k]) = CHUNK_SIZE
            /\ n > 0 => (Len(bytes[n]) = L - (n - 1) * CHUNK_SIZE /\ Len(bytes[n]) > 0)
            /\ \A j, k \in 1..n :
                  j < k => write_transactions[j].offset + Len(bytes[j])
                              <= write_transactions[k].offset
            /\ SumLen(bytes) = L
            /\ Concat(bytes) = program_data

C7_Witness ==
    /\ pc = "discover"
    /\ Len(program_data) = 10 * CHUNK_SIZE + 7
    /\ Len(write_transactions) > 10

\* C8 as stated: with a missing or empty payload file nothing is submitted:
\* the run ends in an error before create-buffer, broadcast or finalize.
C8_EmptyPayloadRejected ==
    (~fileExists \/ Len(fileData) = 0) =>
        /\ reliableLog = <<>>
        /\ ~BroadcastAttempted
        /\ pc = "done" => result = "err"

\* C9: when no node returned by get_cluster_nodes advertises a QUIC port the
\* run has ended in an error: no TPU client exists, nothing was sent on the
\* fast channel, no write transaction on the reliable one, and no finalize.
C9_EmptyDiscoveryIsFatal ==
    discovery = "empty" =>
        /\ pc = "done"
        /\ result = "err"
        /\ client = "none"
        /\ ~BroadcastAttempted
        /\ lastBatch = <<>>
        /\ ReliableWrites = <<>>
        /\ ~FinalizeSubmitted

C9_Witness ==
    /\ discovery = "empty"
    /\ NumChunks >= 2

\* C10: create-buffer is submitted at most once; when the first write
\* transaction is broadcast (and from then on) it has been submitted exactly
\* once, as the first transaction of the run, and was confirmed; when its
\* submission failed the run has ended without any broadcast.
C10_CreateBufferOnceBeforeWrites ==
    /\ Len(Submissions("create_buffer")) <= 1
    /\ (BroadcastAttempted \/ InOrAfterLoop \/ client # "none") =>
          /\ Len(Submissions("create_buffer")) = 1
          /\ reliableLog[1] = [ix |-> "create_buffer", confirmed |-> TRUE]
    /\ (\E i \in DOMAIN reliableLog :
            reliableLog[i].ix = "create_buffer" /\ ~reliableLog[i].confirmed) =>
          /\ pc = "done"
          /\ result = "err"
          /\ ~BroadcastAttempted
          /\ lastBatch = <<>>

C10_Witness ==
    /\ lastOp = "send_initial"
    /\ pc = "poll"
    /\ Len(lastBatch) >= 2

\* C11 as stated: a failed fast-transport send, initial or re-broadcast, never
\* ends the run with an error.
C11_Original_SendFailureNeverSurfaced ==
    (lastOp \in {"send_initial", "resend"} /\ ~lastSendOk) => result = "running"

\* C11 amended: a re-broadcast, failed or not, leaves the run going: the
\* loop moves on to its sleep and the chunks of the batch are the unconfirmed
\* ones; a failed initial batch send ends the run with its error before the
\* confirmation loop starts.
C11_ResendFailureAbsorbed ==
    /\ lastOp = "resend" =>
          /\ result = "running"
          /\ pc = "sleep"
          /\ error = NoError
          /\ Len(lastBatch) = Cardinality(Unconfirmed(confirmed))
    /\ (lastOp = "send_initial" /\ ~lastSendOk) =>
          /\ pc = "done"
          /\ result = "err"
          /\ error = OtherError("send_initial")
          /\ confirmed = <<>>

C11_Witness ==
    /\ lastOp = "resend"
    /\ ~lastSendOk
    /\ pc = "sleep"
    /\ Cardinality(Unconfirmed(confirmed)) >= 2

\* C12: finalize is submitted at most once; when its submission failed the
\* run has ended with an error, finalize is the last transaction submitted,
\* create-buffer was submitted once only and revoke-authority not at all.
C12_FinalizeAtMostOnceNoRetry ==
    /\ Len(Submissions("deploy")) <= 1
    /\ (\E i \in DOMAIN reliableLog :
            reliableLog[i].ix = "deploy" /\ ~reliableLog[i].confirmed) =>
          /\ pc = "done"
          /\ result = "err"
          /\ Len(reliableLog) = 2
          /\ reliableLog[1].ix = "create_buffer"
          /\ reliableLog[2].ix = "deploy"
          /\ Submissions("set_authority") = <<>>

C12_Witness ==
    /\ immutable
    /\ NumChunks >= 2
    /\ Len(Submissions("deploy")) = 1
    /\ ~Submissions("deploy")[1].confirmed

\* The step of the pipeline a position of deploy_program belongs to.
Phase(p) ==
    CASE p \in {"read_program", "read_keypair"} -> 0
      [] p = "sizing" -> 1
      [] p = "create_buffer" -> 2
      [] p \in {"prepare_writes", "discover", "setup_client", "send_initial"} -> 3
      [] p \in {"poll", "resend", "sleep", "shutdown"} -> 4
      [] p = "deploy" -> 5
      [] p = "revoke" -> 6
      [] p = "done" -> 7

FinalizeSucceeded ==
    \E i \in DOMAIN reliableLog : reliableLog[i].ix = "deploy" /\ reliableLog[i].confirmed

\* C13: a run moves through sizing, create-storage, broadcast, confirmation,
\* finalize, revoke-authority in this order, never back and never over a
\* step (only the end of the run, and revoke when immutable is false, are
\* left out); the revoke-authority step is taken exactly when immutable is
\* true and finalize has succeeded.
C13_StepOrderAndRevoke ==
    [][ /\ Phase(pc') >= Phase(pc)
        /\ (pc' # "done" => Phase(pc') <= Phase(pc) + 1)
        /\ (result' = "ok" => (pc \in {"deploy", "revoke"} /\ FinalizeSucceeded'))
        /\ (lastOp' = "set_authority" <=> (pc = "revoke" /\ pc' = "done"))
        /\ (pc' = "revoke" => (immutable /\ FinalizeSucceeded'))
        /\ ((pc = "deploy" /\ FinalizeSucceeded' /\ immutable) => pc' = "revoke")
        /\ (Submissions("set_authority")' # <<>> => lastOp' = "set_authority")
      ]_vars

C13_Witness ==
    /\ pc = "done"
    /\ result = "ok"
    /\ immutable
    /\ lastOp = "set_authority"
    /\ Len(reliableLog) = 3
    /\ NumChunks >= 2

\* C14 as stated: once cancellation has been requested, the loop issues no
\* status poll and no re-broadcast from its next iteration on but goes on to
\* release the TPU client, and finalize is not sent.
C14_CancellationStopsPipeline ==
    [][ cancelRequested =>
          /\ (pc = "poll" => (lastOp' = "shutdown" /\ client' = "closed"))
          /\ (pc = "resend" => lastOp' # "resend")
          /\ lastOp' # "deploy"
      ]_vars

\* C15: the scenario with three chunks of lengths CHUNK_SIZE, CHUNK_SIZE and
\* a shorter rest.  Discovery with three usable endpoints succeeds; a
\* re-broadcast made while chunks 0 and 2 are confirmed carries chunk 1 only;
\* the poll that then reports chunk 1 ends the loop with all three confirmed;
\* a run that returns Ok has submitted finalize exactly once, with all three
\* chunks confirmed.
ScenarioPayload ==
    /\ NumChunks = 3
    /\ Len(write_transactions[1].bytes) = CHUNK_SIZE
    /\ Len(write_transactions[2].bytes) = CHUNK_SIZE
    /\ Len(write_transactions[3].bytes) < CHUNK_SIZE

C15_EndToEndScenario ==
    [][ ScenarioPayload =>
          /\ (lastOp' = "get_cluster_nodes" /\ Cardinality(tpu_map') = 3)
                => (pc' = "setup_client" /\ result' = "running")
          /\ (lastOp' = "resend" /\ confirmed' = <<TRUE, FALSE, TRUE>>)
                => lastBatch' = <<wire_transactions[2]>>
          /\ (pc = "poll" /\ confirmed = <<TRUE, FALSE, TRUE>> /\ result' = "running"
                /\ StatusConfirms(lastStatuses'[2]))
                => (pc' = "shutdown" /\ confirmed' = <<TRUE, TRUE, TRUE>>
                    /\ confirmed_count' = 3)
          /\ result' = "ok"
                => /\ Len(Submissions("deploy")') = 1
                   /\ Submissions("deploy")'[1].confirmed
                   /\ confirmed' = <<TRUE, TRUE, TRUE>>
                   /\ error' = NoError
      ]_vars

C15_Witness ==
    /\ ScenarioPayload
    /\ result = "ok"
    /\ elapsed_seconds = 2
    /\ confirmed = <<TRUE, TRUE, TRUE>>
    /\ Len(Submissions("deploy")) = 1

LoopPcs == {"poll", "resend", "sleep"}

\* What is left of the loop: three positions per remaining round.
LoopMeasure ==
    3 * (max_wait_seconds - elapsed_seconds)
      - (CASE pc = "resend" -> 1 [] pc = "sleep" -> 2 [] OTHER -> 0)

\* C16: every step inside the confirmation loop either leaves the loop or
\* lowers a measure that is positive inside the loop, so the loop ends; a
\* poll is only made in one of the max_wait_seconds rounds, and the poll after
\* which every chunk is confirmed leaves the loop.
C16_LoopTerminates ==
    [][ /\ pc \in LoopPcs =>
              /\ LoopMeasure > 0
              /\ elapsed_seconds < max_wait_seconds
              /\ (pc' \notin LoopPcs \/ LoopMeasure' < LoopMeasure)
        /\ (pc = "poll" /\ Unconfirmed(confirmed') = {}) => pc' \notin LoopPcs
        /\ elapsed_seconds' <= max_wait_seconds
      ]_vars

C16_Witness ==
    /\ pc = "shutdown"
    /\ elapsed_seconds = max_wait_seconds
    /\ NumChunks >= 2
    /\ confirmed_count = 0

\* C17 as stated: the error returned when chunks stay unconfirmed names the
\* indices of the unconfirmed chunks.
C17_Original_ErrorNamesIndices ==
    error.kind = "only_confirmed" =>
        /\ "unconfirmed" \in DOMAIN error
        /\ error.unconfirmed = Unconfirmed(confirmed)

\* C17 amended: the error returned when chunks stay unconfirmed gives the
\* number of confirmed chunks, the number of chunks and the seconds waited,
\* and nothing else.
C17_ErrorGivesCounts ==
    error.kind = "only_confirmed" =>
        /\ pc = "done"
        /\ result = "err"
        /\ DOMAIN error = {"kind", "confirmed", "total", "seconds"}
        /\ error.confirmed = NumChunks - Cardinality(Unconfirmed(confirmed))
        /\ error.total = NumChunks
        /\ error.seconds = max_wait_seconds
        /\ error.confirmed < error.total

C17_Witness ==
    /\ error.kind = "only_confirmed"
    /\ error.confirmed = 1
    /\ error.total = 3

---------------------------------------------------------------------------
(* Navigation: CommandSectionNav and AppNav, under SpecNav *)

\* C18: after any sequence of new, push, pop and reset a CommandSectionNav has
\* 1 <= depth <= max_depth(section); for the Cluster section, whose max_depth
\* is 1, push never succeeds.
C18_DepthWithinBounds ==
    /\ secNav.depth >= 1
    /\ secNav.depth <= max_depth(secNav.cmd_section)
    /\ (navOp = "push" /\ secNav.cmd_section = "Cluster") => navRet = "false"

\* A push on a Cluster section has been refused.
C18_Witness ==
    /\ navOp = "push"
    /\ navRet = "false"
    /\ secNav = [cmd_section |-> "Cluster", depth |-> 1]

\* C19: push at the maximum depth and pop at the section root return false and
\* leave the state as it was; push below the maximum returns true and adds one
\* to the depth; pop above the root returns true and takes one off; a push that
\* succeeded followed by a pop gives back the depth before the push.
C19_PushPopContract ==
    [][ /\ navOp' = "push" =>
              IF secNav.depth >= max_depth(secNav.cmd_section)
              THEN navRet' = "false" /\ secNav' = secNav
              ELSE /\ navRet' = "true"
                   /\ secNav' = [secNav EXCEPT !.depth = secNav.depth + 1]
                   /\ pop(secNav') = [nav |-> secNav, ret |-> "true"]
        /\ navOp' = "pop" =>
              IF secNav.depth = 1
              THEN navRet' = "false" /\ secNav' = secNav
              ELSE /\ navRet' = "true"
                   /\ secNav' = [secNav EXCEPT !.depth = secNav.depth - 1]
        /\ (navOp = "push" /\ navRet = "true" /\ navOp' = "pop") =>
              (navRet' = "true" /\ secNav'.depth = secNav.depth - 1)
      ]_vars

\* A pop at the root of a section that can go deeper has been refused.
C19_Witness ==
    /\ navOp = "pop"
    /\ navRet = "false"
    /\ secNav = [cmd_section |-> "Vote", depth |-> 1]

\* C20: AppNav::go_back in a section at depth > 1 takes one off the depth and
\* keeps the section; at depth 1 it goes to the main menu; at the main menu it
\* does nothing; go_back called again and again is at the main menu after at
\* most max_depth(section) calls and stays there.
C20_GoBack ==
    [][ navOp' = "go_back" =>
          /\ (appNav.kind = "InSection" /\ appNav.depth > 1) =>
                appNav' = [appNav EXCEPT !.depth = appNav.depth - 1]
          /\ (appNav.kind = "InSection" /\ appNav.depth = 1) => appNav' = MainMenu
          /\ appNav.kind = "MainMenu" => appNav' = MainMenu
          /\ appNav'.kind = "InSection" =>
                appNav'.depth + backCount' <= max_depth(appNav'.cmd_section)
      ]_vars

\* Seven go_back calls in a row have come down from the deepest Stake prompt
\* to the root of the section.
C20_Witness ==
    /\ navOp = "go_back"
    /\ backCount = max_depth("Stake") - 1
    /\ appNav = InSection([cmd_section |-> "Stake", depth |-> 1])

\* C21: AppNav::enter_section(s), called at the main menu or in any section at
\* any depth, gives section s at depth 1, so the depth of the section that is
\* left is dropped; AppNav::forward at the main menu returns false and the
\* state stays the main menu.
C21_EnterSectionAndForwardAtMenu ==
    [][ /\ navOp' = "enter_section" =>
              appNav' = [kind |-> "InSection", cmd_section |-> navArg', depth |-> 1]
        /\ (navOp' = "forward" /\ appNav.kind = "MainMenu") =>
              (navRet' = "false" /\ appNav' = MainMenu)
      ]_vars

\* enter_section(Cluster) has been called and the state is the Cluster section
\* at its root.
C21_Witness ==
    /\ navOp = "enter_section"
    /\ navArg = "Cluster"
    /\ appNav = InSection(CommandSectionNav_new("Cluster"))

---------------------------------------------------------------------------
(* The section stack NavContext, under SpecNavCtx *)

\* C22: NavContext::pop_and_get_previous on a stack of one element returns
\* None and keeps that root section, so a call of it never leaves the stack
\* empty.
C22_PopKeepsRoot ==
    [][ (ctxOp' = "pop_and_get_previous" /\ Len(stack) = 1) =>
            (ctxRet' = "None" /\ stack' = stack /\ Len(stack') >= 1)
      ]_vars

NoDuplicates(st) == \A i, j \in 1..Len(st) : st[i] = st[j] => i = j

\* C23: after any sequence of checked_push, pop_and_get_previous and
\* reset_navigation_to the stack holds at most MAX_INTERACTION_DEPTH sections
\* and none twice; a push of a section already on the stack leaves the stack
\* as it was; a push of a new section on a full stack panics and does not
\* grow the stack.
C23_StackBoundedNoDuplicates ==
    [][ /\ Len(stack') <= MAX_INTERACTION_DEPTH
        /\ NoDuplicates(stack')
        /\ (ctxOp' = "checked_push" /\ Contains(stack, ctxArg')) =>
              (stack' = stack /\ ctxPanic' = "none")
        /\ (ctxOp' = "checked_push" /\ ~Contains(stack, ctxArg')
              /\ Len(stack) = MAX_INTERACTION_DEPTH) =>
              (stack' = stack /\ ctxPanic' = "navigation stack exceeded")
      ]_vars

\* A push of a fifth section on a full stack has panicked.
C23_Witness ==
    /\ ctxOp = "checked_push"
    /\ ctxPanic = "navigation stack exceeded"
    /\ Len(stack) = MAX_INTERACTION_DEPTH
    /\ ~Contains(stack, ctxArg)

---------------------------------------------------------------------------
(* The interactive loop, under SpecMain *)

---------------------------------------------------------------------------
(* The confirmation loop in detail, under Spec *)

\* A step that is a get_signature_statuses call that returned statuses.
PollAnswered == lastOp' = "get_signature_statuses" /\ pc' \in {"resend", "shutdown"}

\* C24 as stated: in a poll round every chunk whose signature has a non-empty
\* status becomes Confirmed in that round and a chunk whose signature has an
\* empty status does not.
C24_Original_AnyStatusConfirms ==
    [][ PollAnswered =>
          \A k \in DOMAIN confirmed :
              ~confirmed[k] => (confirmed'[k] <=> lastStatuses'[k] # "none")
      ]_vars

\* C24 amended: in a poll round an unconfirmed chunk becomes Confirmed exactly
\* when its signature has a status and that status carries a confirmation
\* status; a chunk with an empty status, or with a status without
\* confirmation status, stays unconfirmed.
C24_StatusWithConfirmationConfirms ==
    [][ PollAnswered =>
          \A k \in DOMAIN confirmed :
              ~confirmed[k] =>
                  (confirmed'[k] <=> lastStatuses'[k] \in {"confirmed", "failed"})
      ]_vars

\* One poll answered with a confirmation for one chunk and a status without
\* confirmation status for another, which stays unconfirmed.
C24_Witness ==
    /\ lastOp = "get_signature_statuses"
    /\ pc = "resend"
    /\ elapsed_seconds = 0
    /\ \E j, k \in DOMAIN confirmed :
          /\ lastStatuses[j] = "confirmed" /\ confirmed[j]
          /\ lastStatuses[k] = "noconf" /\ ~confirmed[k]

\* C25 as stated: each poll is one batched call whose signature list is
\* exactly the signatures of the chunks unconfirmed at that moment.
C25_Original_PollsOnlyUnconfirmed ==
    [][ lastOp' = "get_signature_statuses" =>
          lastPolled' = FilterUnconfirmed(write_signatures, confirmed, 1)
      ]_vars

\* C25 amended: each poll is one batched call, once per round, whose signature
\* list is the signatures of all chunks in chunk order, confirmed or not; what
\* it returns for a chunk already confirmed changes nothing.
C25_PollsAllSignatures ==
    [][ lastOp' = "get_signature_statuses" =>
          /\ lastPolled' = write_signatures
          /\ Len(lastPolled') = NumChunks
          /\ pc = "poll" /\ lastOp # "get_signature_statuses"
          /\ \A k \in DOMAIN confirmed : confirmed[k] => confirmed'[k]
      ]_vars

\* A poll that asked for all three signatures although one chunk had been
\* confirmed by an earlier poll.
C25_Witness ==
    /\ lastOp = "get_signature_statuses"
    /\ Len(lastPolled) = 3
    /\ elapsed_seconds > 0
    /\ pc = "resend"
    /\ \E k \in DOMAIN confirmed : confirmed[k] /\ lastStatuses[k] = "none"

\* C26: a re-broadcast is made in a loop iteration only if not all chunks are
\* confirmed and at least resend_interval has passed since the previous
\* broadcast (the initial one or the latest re-broadcast); the time of the last
\* resend is set anew only when a re-broadcast is made.
C26_ResendOnlyWhenDue ==
    [][ /\ lastOp' = "resend" =>
              /\ pc = "resend"
              /\ confirmed_count < NumChunks
              /\ sinceResend >= resend_interval
              /\ sinceResend' = 0
        /\ (pc = "resend" /\ lastOp' # "resend") =>
              (sinceResend' = sinceResend /\ lastBatch' = <<>>)
        /\ (InOrAfterLoop /\ sinceResend' < sinceResend) => lastOp' = "resend"
      ]_vars

\* A second re-broadcast has been made, resend_interval after the first.
C26_Witness ==
    /\ lastOp = "resend"
    /\ sinceResend = 0
    /\ elapsed_seconds >= 3
    /\ confirmed_count < NumChunks

\* C27: the serialized transaction and the signature of a chunk are fixed once
\* built: a re-broadcast of chunk i carries the bytes of its initial broadcast,
\* every poll asks for the same signature for chunk i, and no chunk
\* transaction is built or signed again during the run.
C27_WireAndSignaturesFixed ==
    [][ /\ (InOrAfterLoop \/ pc = "send_initial") =>
              /\ write_transactions' = write_transactions
              /\ write_signatures' = write_signatures
              /\ wire_transactions' = wire_transactions
        /\ lastOp' = "send_initial" =>
              /\ lastBatch' = wire_transactions
              /\ \A i \in DOMAIN wire_transactions :
                    /\ wire_transactions[i] = Serialize(write_transactions[i])
                    /\ write_signatures[i] = SignatureOf(write_transactions[i])
        /\ lastOp' = "resend" =>
              /\ Len(lastBatch') = Cardinality(Unconfirmed(confirmed))
              /\ \A j \in DOMAIN lastBatch' :
                    \E i \in Unconfirmed(confirmed) : lastBatch'[j] = wire_transactions[i]
        /\ lastOp' = "get_signature_statuses" =>
              \A i \in DOMAIN write_signatures : lastPolled'[i] = write_signatures[i]
      ]_vars

\* Two chunks have been sent again, with the bytes serialized before the
\* initial broadcast.
C27_Witness ==
    /\ lastOp = "resend"
    /\ Len(lastBatch) = 2
    /\ \A j \in DOMAIN lastBatch :
          \E i \in DOMAIN write_transactions : lastBatch[j] = Serialize(write_transactions[i])

\* C28: in every state of the confirmation loop confirmed_count is the number
\* of chunk indices whose flag is true, so it never exceeds the number of
\* chunks and counts no chunk twice.
C28_CountMatchesFlags ==
    InOrAfterLoop =>
        /\ confirmed_count = Cardinality({k \in DOMAIN confirmed : confirmed[k]})
        /\ confirmed_count <= NumChunks
        /\ Len(confirmed) = NumChunks

\* Two of three chunks are confirmed, after a poll that again returned a
\* confirmation for a chunk confirmed before.
C28_Witness ==
    /\ pc = "resend"
    /\ elapsed_seconds > 0
    /\ NumChunks = 3
    /\ confirmed_count = 2
    /\ \A k \in DOMAIN confirmed : confirmed[k] <=> lastStatuses[k] = "confirmed"

\* C30: a chunk is marked Confirmed only if its write transaction succeeded on
\* chain: a signature whose polled status reports a transaction error is not
\* counted as confirmed, so all chunks are never taken for confirmed, and
\* finalize is never reached, on a poll that reports a failed write.
C30_FailedWriteNotConfirmed ==
    [][ PollAnswered =>
          /\ \A k \in DOMAIN confirmed :
                (~confirmed[k] /\ lastStatuses'[k] = "failed") => ~confirmed'[k]
          /\ (\E k \in DOMAIN confirmed : ~confirmed[k] /\ lastStatuses'[k] = "failed")
                => pc' # "shutdown"
      ]_vars

====
